---- MODULE Spec2Model ----
(***************************************************************************)
(* Reader Elf: main, call_marvis_stream and inprocess_stream of            *)
(* reader_elf.py, with the text utilities of text_cleaner.py and the       *)
(* sentence split of Experiment/marvis.py.                                 *)
(*                                                                         *)
(* A text is a sequence of tokens; every token is a concrete string, so a  *)
(* text of the model is the Python string obtained by concatenating its    *)
(* tokens.                                                                 *)
(***************************************************************************)
EXTENDS Integers, Sequences, FiniteSets, TLC

\* ------------------------------------------------------------------ bounds
MaxRawLen == 2        \* tokens of the text given to main
MaxChunks == 2        \* paragraphs of a text given to inprocess_stream directly
MaxSub == 2           \* sub-buffers one streaming generate() call yields
MaxSegLen == 3        \* tokens of a text given to a segmenter alone
MaxParas == 3         \* paragraphs of a text given to a segmenter alone
MaxCleanLen == 4      \* tokens of a text given to clean_text alone

\* ------------------------------------------------------------------ texts
SP == " "
NL == "\n"
Tokens == {"a", "A", "9", SP, NL, ".", "-", "notes"}

\* str.isspace / regex \s on the tokens
IsSpace(c) == c \in {SP, NL}
\* regex \w
IsWord(c) == c \in {"a", "A", "9", "notes"}
\* len() of a token, in characters
TokLen(c) == IF c = "notes" THEN 5 ELSE 1

RECURSIVE CharLen(_)
CharLen(t) == IF t = <<>> THEN 0 ELSE TokLen(Head(t)) + CharLen(Tail(t))

RECURSIVE LStripSet(_, _)
LStripSet(t, S) ==
    IF t # <<>> /\ Head(t) \in S THEN LStripSet(Tail(t), S) ELSE t

RECURSIVE RStripSet(_, _)
RStripSet(t, S) ==
    IF t # <<>> /\ t[Len(t)] \in S THEN RStripSet(SubSeq(t, 1, Len(t) - 1), S) ELSE t

\* str.strip()
Strip(t) == RStripSet(LStripSet(t, {SP, NL}), {SP, NL})

\* str.splitlines(): a final line break opens no further line
RECURSIVE SplitLinesFrom(_, _)
SplitLinesFrom(t, cur) ==
    IF t = <<>> THEN (IF cur = <<>> THEN <<>> ELSE <<cur>>)
    ELSE IF Head(t) = NL THEN <<cur>> \o SplitLinesFrom(Tail(t), <<>>)
    ELSE SplitLinesFrom(Tail(t), Append(cur, Head(t)))

splitlines(t) == SplitLinesFrom(t, <<>>)

\* "\n".join(lines)
RECURSIVE JoinLines(_)
JoinLines(ls) ==
    IF ls = <<>> THEN <<>>
    ELSE IF Len(ls) = 1 THEN ls[1]
    ELSE ls[1] \o <<NL>> \o JoinLines(Tail(ls))

\* re.fullmatch(r'(page\s+\d+)|\d{1,4}', s.lower()); no text of the model
\* spells "page", so only the second alternative can match
IsPageNumber(s) == Len(s) \in 1..4 /\ \A k \in 1..Len(s) : s[k] = "9"

\* str.isupper(): a cased character, and no lower-case one
IsUpper(s) ==
    /\ \E k \in 1..Len(s) : s[k] = "A"
    /\ \A k \in 1..Len(s) : s[k] \notin {"a", "notes"}

\* len(s.split()): the words of a stripped line
WordCount(s) ==
    Cardinality({k \in 1..Len(s) : ~IsSpace(s[k]) /\ (k = 1 \/ IsSpace(s[k - 1]))})

MaxHeaderWords == 6

DropLine(ln) ==
    LET s == Strip(ln)
    IN  /\ s # <<>>
        /\ \/ IsPageNumber(s)
           \/ IsUpper(s) /\ WordCount(s) <= MaxHeaderWords

RECURSIVE FilterLines(_)
FilterLines(ls) ==
    IF ls = <<>> THEN <<>>
    ELSE IF DropLine(Head(ls)) THEN FilterLines(Tail(ls))
    ELSE <<Head(ls)>> \o FilterLines(Tail(ls))

remove_headers_footers(t) == JoinLines(FilterLines(splitlines(t)))

\* last index of the run of word tokens that starts at k
RECURSIVE WordRunEnd(_, _)
WordRunEnd(t, k) ==
    IF k < Len(t) /\ IsWord(t[k + 1]) THEN WordRunEnd(t, k + 1) ELSE k

\* re.sub(r"(\w+)-\n(\w+)", r"\1\2", text): the output from index k on, p being
\* the index the scan for the next match starts at
RECURSIVE JoinHyphens(_, _, _)
JoinHyphens(t, k, p) ==
    IF k > Len(t) THEN <<>>
    ELSE IF /\ t[k] = "-"
            /\ k + 2 <= Len(t)
            /\ t[k + 1] = NL
            /\ IsWord(t[k + 2])
            /\ k - 1 >= p
            /\ IsWord(t[k - 1])
         THEN JoinHyphens(t, k + 2, WordRunEnd(t, k + 2) + 1)
         ELSE <<t[k]>> \o JoinHyphens(t, k + 1, p)

SentenceEnd == {"."}

\* every line break is kept
KeepLines(t) == t

\* re.sub(r"(?<![\.\!\?;:\"\'])\n", " ", text)
UnwrapLines(t) ==
    [k \in 1..Len(t) |->
        IF t[k] = NL /\ ~(k > 1 /\ t[k - 1] \in SentenceEnd) THEN SP ELSE t[k]]

fix_hyphenation(t) == UnwrapLines(JoinHyphens(t, 1, 1))

\* re.sub(r"[ \t\u00A0]+", " ", text)
RECURSIVE SqueezeSpaces(_)
SqueezeSpaces(t) ==
    IF t = <<>> THEN <<>>
    ELSE IF Head(t) = SP /\ Len(t) > 1 /\ t[2] = SP THEN SqueezeSpaces(Tail(t))
    ELSE <<Head(t)>> \o SqueezeSpaces(Tail(t))

collapse_whitespace(t) == Strip(SqueezeSpaces(t))

clean_text(t) == collapse_whitespace(fix_hyphenation(remove_headers_footers(t)))

\* ------------------------------------------------------------ split_notes
NotesHeadings == {"notes"}
LongParagraph == 80
NearStartChars == 2000
NearStartLines == 20

\* ^ under re.M: the start of the text and the position after every line break
IsLineStart(t, s) == s = 1 \/ (s > 1 /\ s <= Len(t) + 1 /\ t[s - 1] = NL)

\* \s*(edge cases|notes|...) matched from index s
HeadingAt(t, s) ==
    LET rest == LStripSet(SubSeq(t, s, Len(t)), {SP, NL})
    IN  rest # <<>> /\ Head(rest) \in NotesHeadings

\* pattern.search(text): the start of the leftmost match, 0 when there is none
HeadingStart(t) ==
    LET starts == {s \in 1..Len(t) : IsLineStart(t, s) /\ HeadingAt(t, s)}
    IN  IF starts = {} THEN 0
        ELSE CHOOSE s \in starts : \A r \in starts : s <= r

\* last index of the run of line breaks that starts at k
RECURSIVE BreakRunEnd(_, _)
BreakRunEnd(t, k) ==
    IF k < Len(t) /\ t[k + 1] = NL THEN BreakRunEnd(t, k + 1) ELSE k

\* re.split(r"\n{2,}", text): the pieces from index k on, cur being the piece
\* under construction
RECURSIVE SplitBlankFrom(_, _, _)
SplitBlankFrom(t, k, cur) ==
    IF k > Len(t) THEN <<cur>>
    ELSE IF t[k] = NL /\ BreakRunEnd(t, k) > k
         THEN <<cur>> \o SplitBlankFrom(t, BreakRunEnd(t, k) + 1, <<>>)
         ELSE SplitBlankFrom(t, k + 1, Append(cur, t[k]))

CountBreaks(t) == Cardinality({k \in 1..Len(t) : t[k] = NL})

\* split_notes(text) = <<main_text, notes_text>>
split_notes(t) ==
    LET s == HeadingStart(t)
        before == SubSeq(t, 1, s - 1)
        pars == SplitBlankFrom(before, 1, <<>>)
        has_long_par == \E n \in 1..Len(pars) : CharLen(Strip(pars[n])) >= LongParagraph
    IN  IF s = 0 THEN <<t, <<>>>>
        ELSE IF has_long_par THEN <<t, <<>>>>
        ELSE IF CharLen(before) <= NearStartChars \/ CountBreaks(before) <= NearStartLines
             THEN <<RStripSet(before, {NL}), LStripSet(SubSeq(t, s, Len(t)), {NL})>>
             ELSE <<t, <<>>>>

\* ------------------------------------------------- paragraph segmentation
\* last index of the run of whitespace that starts at k
RECURSIVE SpaceRunEnd(_, _)
SpaceRunEnd(t, k) ==
    IF k < Len(t) /\ IsSpace(t[k + 1]) THEN SpaceRunEnd(t, k + 1) ELSE k

\* the end of the match of \n\s*\n+ that starts at the line break at k, 0 when
\* there is none: the last line break of the whitespace run
ParagraphBreakEnd(t, k) ==
    LET later == {l \in (k + 1)..SpaceRunEnd(t, k) : t[l] = NL}
    IN  IF t[k] # NL \/ later = {} THEN 0
        ELSE CHOOSE l \in later : \A m \in later : m <= l

\* re.split(r'\n\s*\n+', text)
RECURSIVE SplitParagraphsFrom(_, _, _)
SplitParagraphsFrom(t, k, cur) ==
    IF k > Len(t) THEN <<cur>>
    ELSE IF ParagraphBreakEnd(t, k) > 0
         THEN <<cur>> \o SplitParagraphsFrom(t, ParagraphBreakEnd(t, k) + 1, <<>>)
         ELSE SplitParagraphsFrom(t, k + 1, Append(cur, t[k]))

\* the pieces as the split left them: none stripped, none dropped
AsSplit(ps) == ps

\* [p.strip() for p in pieces if p.strip()]
RECURSIVE StripNonEmpty(_)
StripNonEmpty(ps) ==
    IF ps = <<>> THEN <<>>
    ELSE IF Strip(Head(ps)) = <<>> THEN StripNonEmpty(Tail(ps))
    ELSE <<Strip(Head(ps))>> \o StripNonEmpty(Tail(ps))

\* [p.strip() for p in re.split(r'\n\s*\n+', text) if p.strip()]
Paragraphs(t) == StripNonEmpty(SplitParagraphsFrom(t, 1, <<>>))

\* --------------------------------------------------- sentence segmentation
\* re.split(r'(?<=[\.\!\?])\s+', text): a run of whitespace that follows a
\* sentence end separates two pieces
RECURSIVE SplitSentencesFrom(_, _, _)
SplitSentencesFrom(t, k, cur) ==
    IF k > Len(t) THEN <<cur>>
    ELSE IF IsSpace(t[k]) /\ k > 1 /\ t[k - 1] \in SentenceEnd
         THEN <<cur>> \o SplitSentencesFrom(t, SpaceRunEnd(t, k) + 1, <<>>)
         ELSE SplitSentencesFrom(t, k + 1, Append(cur, t[k]))

\* sentences = re.split(r'(?<=[\.\!\?])\s+', input_text.strip())
sentences(t) == SplitSentencesFrom(Strip(t), 1, <<>>)

\* chunks = [s.strip() for s in sentences if s.strip()]
chunks(t) == StripNonEmpty(sentences(t))

\* ------------------------------------------------------------------ state
VARIABLES
    pc,               \* position of the run; "done": returned, "raised": left by an exception
    caller,           \* "main": run from main, "direct": inprocess_stream called with a text
    argv,             \* the parsed command line
    raw,              \* text of --text, or content of --file
    text,             \* the text handed to inprocess_stream or call_marvis_stream
    stderr,           \* messages printed to sys.stderr, in order
    stdout,           \* messages printed to sys.stdout, in order
    result,           \* the returned exit code, once pc = "done"
    pygame_available,
    backend,          \* "TTS": tts object of a TTS class, "loader": use_model_obj, "none"
    attr_rate,        \* sample_rate attribute of the loaded object, NoRate when it has none
    reset_op,         \* the reset method found callable and working before this paragraph
    loaded,           \* a model has been loaded
    unloaded,         \* the unload block has run
    paragraphs,
    i,                \* 1-based index of the paragraph in the loop
    sample_rate,
    received,
    nsub,             \* results the generator of this paragraph has yielded
    chunk,            \* result.audio of the last result
    arr_list,
    arr,              \* the local arr, meaningful when arr_bound
    arr_bound,
    tmpname,          \* the local tmpname, 0 while unbound
    tmpfiles,         \* temporary files that exist on disk
    events            \* synthesis and playback calls made so far, in order

vars == <<pc, caller, argv, raw, text, stderr, stdout, result, pygame_available, backend,
          attr_rate, reset_op, loaded, unloaded, paragraphs, i, sample_rate,
          received, nsub, chunk, arr_list, arr, arr_bound, tmpname, tmpfiles, events>>

mainVars == <<caller, argv, raw>>
loadVars == <<pygame_available, backend, attr_rate, reset_op, loaded>>
audioVars == <<received, nsub, chunk, arr_list, arr, arr_bound>>
fileVars == <<tmpname, tmpfiles>>

DefaultRate == 22050
NoRate == 0
ModelRates == {24000}          \* a sample_rate attribute of the loaded object
ResultRates == {16000}         \* a sample_rate attribute of a streamed result
ResetOps == <<"reset_state", "reset", "clear_cache">>
ExitCodes == {1, 2}            \* non-zero return codes of the external process

Msg(m, n, t) == [msg |-> m, i |-> n, txt |-> t]
Pcm(n, j) == [kind |-> "pcm", i |-> n, j |-> j, n |-> 1]
Silence(n) == [kind |-> "silence", i |-> 0, j |-> 0, n |-> n]
Ev(e, n, dev, txt, buf, sr) ==
    [ev |-> e, i |-> n, dev |-> dev, txt |-> txt, buf |-> buf, sr |-> sr]

AllTexts(n) == UNION {[1..m -> Tokens] : m \in 0..n}

Para(j) == [x \in 1..j |-> "a"]
RECURSIVE JoinParas(_, _)
JoinParas(k, sep) ==
    IF k = 0 THEN <<>>
    ELSE IF k = 1 THEN Para(1)
    ELSE JoinParas(k - 1, sep) \o sep \o Para(k)
Separators == {<<NL, NL>>, <<NL, SP, NL>>}
DirectTexts == {JoinParas(k, sep) : k \in 0..MaxChunks, sep \in Separators}

\* documents that have a body, then a notes heading at the start of a line
Bodies == {<<"a">>, <<"a", NL, NL, "a">>}
Guidance == {<<>>, <<SP, "a">>}
NotedTexts == {body \o <<NL, "notes">> \o tail : body \in Bodies, tail \in Guidance}

Init ==
    /\ caller \in {"main", "direct"}
    /\ IF caller = "main"
       THEN /\ argv \in [file_missing : BOOLEAN, show_notes : BOOLEAN, inprocess : BOOLEAN]
            /\ raw \in (IF argv.file_missing THEN {<<>>}
                         ELSE AllTexts(MaxRawLen) \cup NotedTexts)
            /\ text = <<>>
            /\ pc = "main"
       ELSE /\ argv = [file_missing |-> FALSE, show_notes |-> FALSE, inprocess |-> TRUE]
            /\ raw = <<>>
            /\ text \in DirectTexts
            /\ pc = "inprocess_stream"
    /\ stderr = <<>>
    /\ stdout = <<>>
    /\ result = 0
    /\ pygame_available = FALSE
    /\ backend = "none"
    /\ attr_rate = NoRate
    /\ reset_op = "none"
    /\ loaded = FALSE
    /\ unloaded = FALSE
    /\ paragraphs = <<>>
    /\ i = 0
    /\ sample_rate = DefaultRate
    /\ received = FALSE
    /\ nsub = 0
    /\ chunk = <<>>
    /\ arr_list = <<>>
    /\ arr = <<>>
    /\ arr_bound = FALSE
    /\ tmpname = 0
    /\ tmpfiles = {}
    /\ events = <<>>

\* the exit codes of main, call_marvis_stream and inprocess_stream
FileNotFoundCode == 1
ModuleNotFoundCode == 2
DepsMissingCode == 2
NoLoaderCode == 3
\* a load error reported with the code of the missing loader
LoadErrorCodeOfNoLoader == NoLoaderCode
LoadErrorCode == 4
GenerationFailedCode == 5
BadAudioCode == 6
PlayerMissingCode == 7
PlaybackFailedCode == 8

DepsMissingText == "ERROR: in-process mode requires 'soundfile' and 'numpy':"
NoLoaderText == "ERROR: In-process TTS unavailable (no TTS class and no loader)."
LoadErrorText == "ERROR: Failed to load in-process model:"
ProgressText == "Generating paragraph"

\* an event of the paragraph in the loop that carries no text and no audio
Note(e, dev) == Ev(e, i, dev, <<>>, <<>>, NoRate)

\* return code: the run has ended
Return(code, msgs) ==
    /\ pc' = "done"
    /\ result' = code
    /\ stderr' = stderr \o msgs

\* ------------------------------------------------------------------- main
PreviewChars == 300

\* cleaned[:300]; every text of the model is shorter
Preview(t) == IF CharLen(t) <= PreviewChars THEN t ELSE <<>>

NotesShown(notes) ==
    <<Msg("--- detected notes/guidance section ---", 0, <<>>),
      Msg("notes_text", 0, notes),
      Msg("--- end notes ---", 0, <<>>)>>

PreviewShown(cleaned) ==
    <<Msg("--- cleaned text preview (first 300 chars) ---", 0, <<>>),
      Msg("preview", 0, Preview(cleaned)),
      Msg("--- end preview ---", 0, <<>>)>>

\* the notes are spoken after the main text
content_with_notes(main_text, notes_text) ==
    Strip(main_text \o <<NL>> \o notes_text)

\* content_to_speak = main_text.strip(), and notes_text.strip() when that is empty
content_to_speak(main_text, notes_text) ==
    IF Strip(main_text) # <<>> THEN Strip(main_text) ELSE Strip(notes_text)

\* main up to the call of inprocess_stream or call_marvis_stream
main ==
    /\ pc = "main"
    /\ LET split == split_notes(raw)
           main_text == split[1]
           notes_text == split[2]
           shown == IF argv.show_notes /\ notes_text # <<>>
                    THEN NotesShown(notes_text) ELSE <<>>
           warned == IF Strip(main_text) = <<>>
                     THEN <<Msg("Warning: document appears to contain only notes/guidance", 0, <<>>)>>
                     ELSE <<>>
           cleaned == clean_text(content_to_speak(main_text, notes_text))
       IN  IF argv.file_missing
           THEN /\ Return(FileNotFoundCode, <<Msg("File not found", 0, <<>>)>>)
                /\ text' = text
           ELSE IF Strip(main_text) = <<>> /\ notes_text = <<>>
           THEN /\ Return(0, shown \o <<Msg("No readable document text detected", 0, <<>>),
                                        Msg("Use --show-notes to print the guidance if desired.", 0, <<>>)>>)
                /\ text' = text
           ELSE /\ text' = cleaned
                /\ stderr' = stderr \o shown \o warned \o PreviewShown(cleaned)
                /\ pc' = IF argv.inprocess THEN "inprocess_stream" ELSE "call_marvis_stream"
                /\ result' = result
    /\ UNCHANGED <<mainVars, stdout, loadVars, unloaded, paragraphs, i, sample_rate,
                   audioVars, fileVars, events>>

\* "Running Marvis TTS..." printed without file=sys.stderr
call_marvis_stream_stdout ==
    /\ pc = "call_marvis_stream"
    /\ stdout' = Append(stdout, Msg("Running Marvis TTS...", 0, <<>>))
    /\ \E out \in {"exit0", "not_found", "exit_nonzero", "start_error"}, code \in ExitCodes :
        CASE out = "exit0" ->
               /\ events' = Append(events, Ev("external", 0, "process", text, <<>>, NoRate))
               /\ Return(0, <<>>)
          [] out = "not_found" ->
               /\ events' = events
               /\ Return(ModuleNotFoundCode, <<Msg("mlx-audio module not found", 0, <<>>)>>)
          [] out = "exit_nonzero" ->
               /\ events' = Append(events, Ev("external", 0, "process", text, <<>>, NoRate))
               /\ Return(code, <<Msg("Marvis TTS exited with code", code, <<>>)>>)
          [] out = "start_error" ->
               /\ events' = events
               /\ pc' = "raised"
               /\ UNCHANGED <<result, stderr>>
    /\ UNCHANGED <<mainVars, text, loadVars, unloaded, paragraphs, i, sample_rate,
                   audioVars, fileVars>>

\* call_marvis_stream: one blocking run of the mlx_audio module on the whole
\* text; subprocess.run returns when the process has exited, raises
\* FileNotFoundError when the interpreter is not found, CalledProcessError on a
\* non-zero exit, and another OSError when the process cannot be started
call_marvis_stream ==
    /\ pc = "call_marvis_stream"
    /\ stdout' = stdout
    /\ \E out \in {"exit0", "not_found", "exit_nonzero", "start_error"}, code \in ExitCodes :
        LET running == <<Msg("Running Marvis TTS...", 0, <<>>)>>
        IN  CASE out = "exit0" ->
                   /\ events' = Append(events, Ev("external", 0, "process", text, <<>>, NoRate))
                   /\ Return(0, running)
              [] out = "not_found" ->
                   /\ events' = events
                   /\ Return(ModuleNotFoundCode, running \o <<Msg("mlx-audio module not found", 0, <<>>)>>)
              [] out = "exit_nonzero" ->
                   /\ events' = Append(events, Ev("external", 0, "process", text, <<>>, NoRate))
                   /\ Return(code, running \o <<Msg("Marvis TTS exited with code", code, <<>>)>>)
              [] out = "start_error" ->
                   /\ events' = events
                   /\ stderr' = stderr \o running
                   /\ pc' = "raised"
                   /\ result' = result
    /\ UNCHANGED <<mainVars, text, loadVars, unloaded, paragraphs, i, sample_rate,
                   audioVars, fileVars>>

\* ------------------------------------------------- inprocess_stream: loading
\* soundfile and numpy are imported, then pygame's mixer is tried
ImportAudioLibs ==
    /\ pc = "inprocess_stream"
    /\ \E deps_ok \in BOOLEAN, mixer_ok \in BOOLEAN :
        IF deps_ok
        THEN /\ pygame_available' = mixer_ok
             /\ pc' = "resolve"
             /\ UNCHANGED <<result, stderr>>
        ELSE /\ pygame_available' = pygame_available
             /\ Return(DepsMissingCode, <<Msg(DepsMissingText, 0, <<>>),
                            Msg("Exiting.", 0, <<>>)>>)
    /\ UNCHANGED <<mainVars, stdout, text, backend, attr_rate, reset_op, loaded, unloaded,
                   paragraphs, i, sample_rate, audioVars, fileVars, events>>

\* the TTS class found by the import attempts: tts_mod is what importing
\* mlx_audio.tts gave, root what importing mlx_audio gave after it failed
FoundTTS(tts_mod, root) ==
    \/ tts_mod = "has_TTS"
    \/ tts_mod = "import_error" /\ root \in {"has_TTS", "has_tts.TTS"}

\* dir() of the module can be listed for the error report
NamesListed(tts_mod, root) == tts_mod = "no_TTS" \/ root # "import_error"

ResolveBackend ==
    /\ pc = "resolve"
    /\ \E tts_mod \in {"has_TTS", "no_TTS", "import_error"},
          root \in {"has_TTS", "has_tts.TTS", "other", "import_error"},
          has_loader \in BOOLEAN :
        IF FoundTTS(tts_mod, root)
        THEN /\ backend' = "TTS"
             /\ pc' = "load"
             /\ UNCHANGED <<result, stderr>>
        ELSE IF has_loader
        THEN /\ backend' = "loader"
             /\ pc' = "load"
             /\ stderr' = Append(stderr, Msg("No TTS class; will use mlx_audio.tts.utils.load_model", 0, <<>>))
             /\ result' = result
        ELSE /\ backend' = backend
             /\ Return(NoLoaderCode, (IF NamesListed(tts_mod, root)
                           THEN <<Msg("ERROR: mlx_audio present but no usable loader found.", 0, <<>>),
                                  Msg("names", 0, <<>>)>>
                           ELSE <<>>)
                          \o <<Msg(NoLoaderText, 0, <<>>),
                               Msg("Exiting.", 0, <<>>)>>)
    /\ UNCHANGED <<mainVars, stdout, text, pygame_available, attr_rate, reset_op, loaded, unloaded,
                   paragraphs, i, sample_rate, audioVars, fileVars, events>>

\* getattr(obj, 'sample_rate', default)
RateOf(attr, default) == IF attr # NoRate THEN attr ELSE default

\* the model is loaded: TTS.from_pretrained, TTS(...), TTS.load, or the loader
LoadModel ==
    /\ pc = "load"
    /\ \E ok \in BOOLEAN, rate \in {NoRate} \cup ModelRates :
        LET loading == <<Msg("Loading Marvis model", 0, <<>>)>>
        IN  IF ok
            THEN /\ loaded' = TRUE
                 /\ attr_rate' = rate
                 /\ sample_rate' = IF backend = "loader"
                                   THEN RateOf(rate, DefaultRate) ELSE DefaultRate
                 /\ stderr' = stderr \o loading
                 /\ pc' = "split"
                 /\ result' = result
            ELSE /\ UNCHANGED <<loaded, attr_rate, sample_rate>>
                 /\ Return(LoadErrorCode, loading \o <<Msg(LoadErrorText, 0, <<>>),
                                           Msg("Exiting.", 0, <<>>)>>)
    /\ UNCHANGED <<mainVars, stdout, text, pygame_available, backend, reset_op, unloaded,
                   paragraphs, i, audioVars, fileVars, events>>

\* the attribute of tts read by getattr(tts, name, default): tts is None when
\* the loader built the model
TtsAttr(value, absent) == IF backend = "TTS" THEN value ELSE absent

\* the text is split into paragraphs; nothing to speak returns 0 at once
SplitParagraphs ==
    /\ pc = "split"
    /\ paragraphs' = Paragraphs(text)
    /\ IF Paragraphs(text) = <<>>
       THEN /\ Return(0, <<>>)
            /\ UNCHANGED <<i, sample_rate>>
       ELSE /\ sample_rate' = RateOf(TtsAttr(attr_rate, NoRate), DefaultRate)
            /\ i' = 1
            /\ pc' = "loop"
            /\ UNCHANGED <<result, stderr>>
    /\ UNCHANGED <<mainVars, stdout, text, loadVars, unloaded, audioVars, fileVars, events>>

\* ------------------------------------------- inprocess_stream: the paragraphs
\* the progress line numbered from 0, as enumerate(paragraphs) would
ProgressFromZero(n) == Msg(ProgressText, n - 1, <<>>)

\* print(f"Generating paragraph {i}/{len(paragraphs)}...")
Progress(n) == Msg(ProgressText, n, <<>>)

\* the reset methods the loaded object may offer: "none" when it has no
\* callable one that succeeds, else the first of ResetOps that does
Offered(n) == IF n > 1 THEN {"none"} \cup {ResetOps[k] : k \in 1..Len(ResetOps)} ELSE {"none"}

\* the reset of the model state before every paragraph but the first, then the
\* progress line
LoopTop ==
    /\ pc = "loop"
    /\ \E offered \in Offered(i) :
        LET op == TtsAttr(offered, "none")
        IN  /\ reset_op' = offered
            /\ events' = IF op # "none"
                         THEN Append(events, Ev("reset", i, op, <<>>, <<>>, NoRate))
                         ELSE events
            /\ stderr' = stderr
                         \o (IF op # "none" THEN <<Msg("Called tts." \o op \o "()", i, <<>>)>> ELSE <<>>)
                         \o <<Progress(i)>>
    /\ pc' = "generate"
    /\ UNCHANGED <<mainVars, stdout, text, result, pygame_available, backend, attr_rate, loaded,
                   unloaded, paragraphs, i, sample_rate, audioVars, fileVars>>

GenerationFailed == <<Msg("ERROR: TTS generation failed for paragraph:", 0, <<>>)>>

\* what the calls of tts(para) and, after a TypeError, tts(para, reference_audio=None) do
TtsCalls ==
    {<<"audio">>, <<"empty">>, <<"raise">>,
     <<"TypeError", "audio">>, <<"TypeError", "empty">>, <<"TypeError", "raise">>}

RECURSIVE SynthEvents(_, _)
SynthEvents(n, dev) ==
    IF n = 0 THEN <<>>
    ELSE SynthEvents(n - 1, dev) \o <<Ev("synth", i, dev, paragraphs[i], <<>>, NoRate)>>

\* a call that raises is logged and the loop goes on with the next paragraph
CallTtsSkipping ==
    /\ pc = "generate"
    /\ backend = "TTS"
    /\ \E calls \in TtsCalls :
        LET last == calls[Len(calls)]
        IN  /\ events' = events \o SynthEvents(Len(calls), "tts")
                         \o (IF last = "raise" THEN <<Note("synth_fail", "tts")>>
                             ELSE IF last = "empty" THEN <<Note("synth_empty", "tts")>>
                             ELSE <<>>)
            /\ IF last = "raise"
               THEN /\ stderr' = stderr \o GenerationFailed
                    /\ pc' = IF i < Len(paragraphs) THEN "loop" ELSE "unload"
                    /\ i' = i + 1
                    /\ UNCHANGED <<result, arr, arr_bound>>
               ELSE /\ arr' = IF last = "audio" THEN <<Pcm(i, 0)>> ELSE <<>>
                    /\ arr_bound' = TRUE
                    /\ pc' = "asarray"
                    /\ UNCHANGED <<result, stderr, i>>
    /\ UNCHANGED <<mainVars, stdout, text, loadVars, unloaded, paragraphs, sample_rate,
                   received, nsub, chunk, arr_list, fileVars>>

\* the TTS object is called on the paragraph
CallTts ==
    /\ pc = "generate"
    /\ backend = "TTS"
    /\ \E calls \in TtsCalls :
        LET last == calls[Len(calls)]
        IN  /\ events' = events \o SynthEvents(Len(calls), "tts")
                         \o (IF last = "raise" THEN <<Note("synth_fail", "tts")>>
                             ELSE IF last = "empty" THEN <<Note("synth_empty", "tts")>>
                             ELSE <<>>)
            /\ IF last = "raise"
               THEN /\ Return(GenerationFailedCode, GenerationFailed)
                    /\ UNCHANGED <<arr, arr_bound>>
               ELSE /\ arr' = IF last = "audio" THEN <<Pcm(i, 0)>> ELSE <<>>
                    /\ arr_bound' = TRUE
                    /\ pc' = "asarray"
                    /\ UNCHANGED <<result, stderr>>
    /\ UNCHANGED <<mainVars, stdout, text, loadVars, unloaded, paragraphs, i, sample_rate,
                   received, nsub, chunk, arr_list, fileVars>>

\* use_model_obj.generate(text=para, ..., stream=True) is requested
RequestStream ==
    /\ pc = "generate"
    /\ backend = "loader"
    /\ events' = events \o SynthEvents(1, "generate")
    /\ received' = FALSE
    /\ arr_list' = <<>>
    /\ nsub' = 0
    /\ pc' = "stream"
    /\ UNCHANGED <<mainVars, stdout, text, result, stderr, loadVars, unloaded, paragraphs, i,
                   sample_rate, chunk, arr, arr_bound, fileVars>>

RECURSIVE Concatenate(_)
Concatenate(bufs) ==
    IF bufs = <<>> THEN <<>> ELSE Head(bufs) \o Concatenate(Tail(bufs))

\* one step of "for result in results", and what follows the loop when the
\* generator is exhausted
StreamNext ==
    /\ pc = "stream"
    /\ \E out \in {"yield", "stop", "raise"}, rate \in {NoRate} \cup ResultRates :
        CASE out = "yield" ->
               /\ nsub < MaxSub
               /\ received' = TRUE
               /\ nsub' = nsub + 1
               /\ chunk' = <<Pcm(i, nsub + 1)>>
               /\ sample_rate' = RateOf(rate, sample_rate)
               /\ arr_list' = IF pygame_available THEN arr_list
                              ELSE Append(arr_list, <<Pcm(i, nsub + 1)>>)
               /\ pc' = IF pygame_available THEN "mixer_play" ELSE "stream"
               /\ UNCHANGED <<result, stderr, arr, arr_bound, events>>
          [] out = "stop" ->
               /\ UNCHANGED <<received, nsub, chunk, sample_rate, arr_list>>
               /\ IF ~received
                  THEN /\ Return(GenerationFailedCode,
                                 <<Msg("ERROR: model.generate returned no audio for paragraph.", 0, <<>>)>>)
                       /\ events' = Append(events, Note("synth_empty", "generate"))
                       /\ UNCHANGED <<arr, arr_bound>>
                  ELSE /\ arr' = IF pygame_available THEN arr ELSE Concatenate(arr_list)
                       /\ arr_bound' = IF pygame_available THEN arr_bound ELSE TRUE
                       /\ pc' = "asarray"
                       /\ UNCHANGED <<result, stderr, events>>
          [] out = "raise" ->
               /\ UNCHANGED <<received, nsub, chunk, sample_rate, arr_list, arr, arr_bound>>
               /\ events' = Append(events, Note("synth_fail", "generate"))
               /\ Return(GenerationFailedCode, GenerationFailed)
    /\ UNCHANGED <<mainVars, stdout, text, loadVars, unloaded, paragraphs, i, fileVars>>

\* the sub-buffer is written to an in-memory WAV and handed to the mixer
MixerPlay ==
    /\ pc = "mixer_play"
    /\ \E out \in {"playing", "encode_error", "play_error"} :
        CASE out = "playing" ->
               /\ events' = Append(events, Ev("play_begin", i, "mixer", <<>>, chunk, sample_rate))
               /\ pc' = "mixer_wait"
               /\ UNCHANGED <<result, stderr, arr_list>>
          [] out = "encode_error" ->
               /\ events' = Append(events, Note("encode_fail", "mixer"))
               /\ Return(GenerationFailedCode, GenerationFailed)
               /\ arr_list' = arr_list
          [] out = "play_error" ->
               /\ events' = Append(events, Note("play_fail", "mixer"))
               /\ arr_list' = Append(arr_list, chunk)
               /\ pc' = "stream"
               /\ UNCHANGED <<result, stderr>>
    /\ UNCHANGED <<mainVars, stdout, text, loadVars, unloaded, paragraphs, i, sample_rate,
                   received, nsub, chunk, arr, arr_bound, fileVars>>

\* while ch.get_busy(): pygame.time.delay(20)
MixerWait ==
    /\ pc = "mixer_wait"
    /\ events' = Append(events, Ev("play_end", i, "mixer", <<>>, chunk, sample_rate))
    /\ pc' = "stream"
    /\ UNCHANGED <<mainVars, stdout, text, result, stderr, loadVars, unloaded, paragraphs, i,
                   sample_rate, audioVars, fileVars>>

\* int(sample_rate * 0.25)
SilenceSamples(rate) == (rate * 25) \div 100

\* arr = np.asarray(arr), then the silence is appended
AsArray ==
    /\ pc = "asarray"
    /\ IF ~arr_bound
       THEN /\ Return(BadAudioCode, <<Msg("ERROR: Unexpected audio format from TTS; aborting.", 0, <<>>)>>)
            /\ arr' = arr
       ELSE /\ arr' = Append(arr, Silence(SilenceSamples(sample_rate)))
            /\ pc' = "tempfile"
            /\ UNCHANGED <<result, stderr>>
    /\ UNCHANGED <<mainVars, stdout, text, loadVars, unloaded, paragraphs, i, sample_rate,
                   received, nsub, chunk, arr_list, arr_bound, fileVars, events>>

\* no finally block: the file made with delete=False stays
KeepTemp(files, name) == files

\* the finally block: os.remove(tmpname), every error ignored
RemoveTemp(files, name) == files \ {name}

\* a name no temporary file has had
FreshName == tmpname + 1

\* tempfile.NamedTemporaryFile(suffix='.wav', delete=False), then sf.write
WriteTemp ==
    /\ pc = "tempfile"
    /\ \E out \in {"written", "create_error", "create_enoent", "write_error"} :
        CASE out = "written" ->
               /\ tmpname' = FreshName
               /\ tmpfiles' = tmpfiles \cup {FreshName}
               /\ pc' = "player"
               /\ UNCHANGED <<result, stderr, events>>
          [] out = "create_error" ->
               /\ tmpname' = tmpname
               /\ tmpfiles' = RemoveTemp(tmpfiles, tmpname)
               /\ events' = Append(events, Note("temp_fail", "create"))
               /\ pc' = "raised"
               /\ UNCHANGED <<result, stderr>>
          [] out = "create_enoent" ->
               /\ tmpname' = tmpname
               /\ tmpfiles' = RemoveTemp(tmpfiles, tmpname)
               /\ events' = Append(events, Note("temp_fail", "create"))
               /\ Return(PlayerMissingCode, <<Msg("ERROR: Playback utility not found (afplay).", 0, <<>>)>>)
          [] out = "write_error" ->
               /\ tmpname' = FreshName
               /\ tmpfiles' = RemoveTemp(tmpfiles \cup {FreshName}, FreshName)
               /\ events' = Append(events, Note("temp_fail", "write"))
               /\ pc' = "raised"
               /\ UNCHANGED <<result, stderr>>
    /\ UNCHANGED <<mainVars, stdout, text, loadVars, unloaded, paragraphs, i, sample_rate,
                   audioVars>>

\* the player started without waiting for it (subprocess.Popen): the loop goes on
StartPlayerDetached ==
    /\ pc = "player"
    /\ events' = Append(events, Ev("play_begin", i, "afplay", <<>>, arr, sample_rate))
    /\ tmpfiles' = RemoveTemp(tmpfiles, tmpname)
    /\ i' = i + 1
    /\ pc' = IF i < Len(paragraphs) THEN "loop" ELSE "unload"
    /\ UNCHANGED <<mainVars, stdout, text, result, stderr, loadVars, unloaded, paragraphs,
                   sample_rate, audioVars, tmpname>>

\* subprocess.run(["afplay", tmpname], check=True) starts the player
StartPlayer ==
    /\ pc = "player"
    /\ \E found \in BOOLEAN :
        IF found
        THEN /\ events' = Append(events, Ev("play_begin", i, "afplay", <<>>, arr, sample_rate))
             /\ pc' = "playing"
             /\ UNCHANGED <<result, stderr, tmpfiles>>
        ELSE /\ events' = Append(events, Note("player_missing", "afplay"))
             /\ tmpfiles' = RemoveTemp(tmpfiles, tmpname)
             /\ Return(PlayerMissingCode, <<Msg("ERROR: Playback utility not found (afplay).", 0, <<>>)>>)
    /\ UNCHANGED <<mainVars, stdout, text, loadVars, unloaded, paragraphs, i, sample_rate,
                   audioVars, tmpname>>

\* the player run without check=True: a failed playback is not noticed
PlayerExitUnchecked ==
    /\ pc = "playing"
    /\ tmpfiles' = RemoveTemp(tmpfiles, tmpname)
    /\ \E ok \in BOOLEAN :
        events' = Append(events, Ev(IF ok THEN "play_end" ELSE "play_abort", i, "afplay",
                                    <<>>, arr, sample_rate))
    /\ i' = i + 1
    /\ pc' = IF i < Len(paragraphs) THEN "loop" ELSE "unload"
    /\ UNCHANGED <<mainVars, stdout, text, result, stderr, loadVars, unloaded, paragraphs,
                   sample_rate, audioVars, tmpname>>

\* the player exits; the finally block removes the file; the loop goes on
PlayerExit ==
    /\ pc = "playing"
    /\ tmpfiles' = RemoveTemp(tmpfiles, tmpname)
    /\ \E ok \in BOOLEAN :
        IF ok
        THEN /\ events' = Append(events, Ev("play_end", i, "afplay", <<>>, arr, sample_rate))
             /\ i' = i + 1
             /\ pc' = IF i < Len(paragraphs) THEN "loop" ELSE "unload"
             /\ UNCHANGED <<result, stderr>>
        ELSE /\ events' = Append(events, Ev("play_abort", i, "afplay", <<>>, arr, sample_rate))
             /\ i' = i
             /\ Return(PlaybackFailedCode, <<Msg("ERROR: Playback failed:", 0, <<>>)>>)
    /\ UNCHANGED <<mainVars, stdout, text, loadVars, unloaded, paragraphs, sample_rate,
                   audioVars, tmpname>>

\* del tts; gc.collect(); torch.cuda.empty_cache(); return 0
Unload ==
    /\ pc = "unload"
    /\ unloaded' = TRUE
    /\ Return(0, <<>>)
    /\ UNCHANGED <<mainVars, stdout, text, loadVars, paragraphs, i, sample_rate, audioVars,
                   fileVars, events>>

Next ==
    \/ main
    \/ call_marvis_stream
    \/ ImportAudioLibs
    \/ ResolveBackend
    \/ LoadModel
    \/ SplitParagraphs
    \/ LoopTop
    \/ CallTts
    \/ RequestStream
    \/ StreamNext
    \/ MixerPlay
    \/ MixerWait
    \/ AsArray
    \/ WriteTemp
    \/ StartPlayer
    \/ PlayerExit
    \/ Unload

Spec == Init /\ [][Next]_vars

\* ------------------------------------------------- the segmenters alone
\* texts of k paragraphs separated by blank lines
ParagraphTexts == {JoinParas(k, sep) : k \in 0..MaxParas, sep \in Separators}

\* a text is given to one of the two segmenters; nothing else has happened
SegmenterInit ==
    /\ caller = "segmenter"
    /\ argv = [file_missing |-> FALSE, show_notes |-> FALSE, inprocess |-> TRUE]
    /\ raw = <<>>
    /\ text \in AllTexts(MaxSegLen) \cup ParagraphTexts
    /\ pc = "segment"
    /\ stderr = <<>>
    /\ stdout = <<>>
    /\ result = 0
    /\ pygame_available = FALSE
    /\ backend = "none"
    /\ attr_rate = NoRate
    /\ reset_op = "none"
    /\ loaded = FALSE
    /\ unloaded = FALSE
    /\ paragraphs = <<>>
    /\ i = 0
    /\ sample_rate = DefaultRate
    /\ received = FALSE
    /\ nsub = 0
    /\ chunk = <<>>
    /\ arr_list = <<>>
    /\ arr = <<>>
    /\ arr_bound = FALSE
    /\ tmpname = 0
    /\ tmpfiles = {}
    /\ events = <<>>

\* paragraph mode: the split of inprocess_stream
SegmentParagraphs ==
    /\ pc = "segment"
    /\ paragraphs' = Paragraphs(text)
    /\ pc' = "paragraph_mode"
    /\ UNCHANGED <<mainVars, stdout, text, stderr, result, loadVars, unloaded, i,
                   sample_rate, audioVars, fileVars, events>>

\* sentence mode: the split of Experiment/marvis.py
SegmentSentences ==
    /\ pc = "segment"
    /\ paragraphs' = chunks(text)
    /\ pc' = "sentence_mode"
    /\ UNCHANGED <<mainVars, stdout, text, stderr, result, loadVars, unloaded, i,
                   sample_rate, audioVars, fileVars, events>>

SegmenterNext ==
    \/ SegmentParagraphs
    \/ SegmentSentences

SegmenterSpec == SegmenterInit /\ [][SegmenterNext]_vars

\* ------------------------------------- clean_text, then the paragraph split
\* a text is about to be cleaned as main does and split as inprocess_stream does
CleanerInit ==
    /\ caller = "cleaner"
    /\ argv = [file_missing |-> FALSE, show_notes |-> FALSE, inprocess |-> TRUE]
    /\ raw \in AllTexts(MaxCleanLen) \cup ParagraphTexts
    /\ text = <<>>
    /\ pc = "clean"
    /\ stderr = <<>>
    /\ stdout = <<>>
    /\ result = 0
    /\ pygame_available = FALSE
    /\ backend = "none"
    /\ attr_rate = NoRate
    /\ reset_op = "none"
    /\ loaded = FALSE
    /\ unloaded = FALSE
    /\ paragraphs = <<>>
    /\ i = 0
    /\ sample_rate = DefaultRate
    /\ received = FALSE
    /\ nsub = 0
    /\ chunk = <<>>
    /\ arr_list = <<>>
    /\ arr = <<>>
    /\ arr_bound = FALSE
    /\ tmpname = 0
    /\ tmpfiles = {}
    /\ events = <<>>

\* cleaned = clean_text(...), then the paragraph split of inprocess_stream on it
CleanAndSegment ==
    /\ pc = "clean"
    /\ text' = clean_text(raw)
    /\ paragraphs' = Paragraphs(clean_text(raw))
    /\ pc' = "cleaned"
    /\ UNCHANGED <<mainVars, stdout, stderr, result, loadVars, unloaded, i,
                   sample_rate, audioVars, fileVars, events>>

CleanerNext == CleanAndSegment

CleanerSpec == CleanerInit /\ [][CleanerNext]_vars

\* ----------------------------------------------------------------- claims
EventsOf(kinds) == {p \in 1..Len(events) : events[p].ev \in kinds}
HasMsg(m) == \E k \in 1..Len(stderr) : stderr[k].msg = m
Last(S) == CHOOSE p \in S : \A q \in S : q <= p

\* C1: the paragraphs are played in ascending order; the synthesis request and
\* the playback of paragraph n + 1 come only after a playback of paragraph n has
\* completed; a playback that has begun is followed at once by its end, and
\* until then the run waits for it.
PlayedInOrder ==
    \A p \in 1..Len(events) :
        LET e == events[p]
        IN  /\ (e.ev \in {"synth", "play_begin"} /\ e.i > 1)
                 => \E q \in 1..(p - 1) : events[q].ev = "play_end" /\ events[q].i = e.i - 1
            /\ e.ev = "play_begin"
                 => /\ \A q \in 1..(p - 1) : events[q].ev = "play_begin" => events[q].i <= e.i
                    /\ p < Len(events)
                         => events[p + 1].ev \in {"play_end", "play_abort"} /\ events[p + 1].i = e.i
                    /\ p = Len(events) => pc \in {"playing", "mixer_wait"}

\* C1 witness: the second paragraph has been played to its end
SecondParagraphPlayed ==
    \E p \in 1..Len(events) : events[p].ev = "play_end" /\ events[p].i = 2

FatalEvents == {"synth_fail", "player_missing", "play_abort"}

TempFileScoped ==
    /\ Cardinality(tmpfiles) <= 1
    /\ tmpfiles # {} => (tmpfiles = {tmpname} /\ pc \in {"player", "playing"})

\* C4 witness: the player failed on the file of the second paragraph, which is gone
SecondFileRemoved ==
    /\ pc = "done"
    /\ result = PlaybackFailedCode
    /\ tmpname = 2
    /\ tmpfiles = {}

AllSynthesized ==
    \A k \in 1..Len(paragraphs) : \E p \in EventsOf({"synth"}) : events[p].i = k

\* C5: with the mixer selected, a run in which the mixer failed to play a
\* sub-buffer, and no synthesis failed, is not aborted: every paragraph is
\* synthesized and the run returns 0.
MixerFailureContinues ==
    (/\ pc = "done"
     /\ pygame_available
     /\ EventsOf({"play_fail"}) # {}
     /\ result # GenerationFailedCode)
        => (result = 0 /\ AllSynthesized)

FailureEvents ==
    {"synth_fail", "synth_empty", "encode_fail", "play_fail", "temp_fail",
     "player_missing", "play_abort"}

\* C6: a run that loaded its model and met no failure in synthesis or playback
\* ends with every paragraph synthesized and played, the model unloaded, and 0.
CleanRunReturnsZero ==
    (/\ pc = "done"
     /\ loaded
     /\ paragraphs # <<>>
     /\ EventsOf(FailureEvents) = {})
        => /\ result = 0
           /\ unloaded
           /\ AllSynthesized
           /\ \A k \in 1..Len(paragraphs) : \E p \in EventsOf({"play_end"}) : events[p].i = k

\* C7: a run that returns after its model was loaded has run the unload block.
UnloadedBeforeReturn == (pc = "done" /\ loaded) => unloaded

\* C8: main, given a text without notes section that cleaning leaves empty,
\* returns 0, in both modes, and synthesizes and plays nothing in-process.
EmptyInputIsNoOp ==
    (/\ caller = "main"
     /\ ~argv.file_missing
     /\ split_notes(raw)[2] = <<>>
     /\ clean_text(Strip(raw)) = <<>>
     /\ pc = "done")
        => (result = 0 /\ EventsOf({"synth", "play_begin"}) = {})

\* C9: a paragraph for which the backend gives no audio ends the run with the
\* generation-failure code, and nothing is played after it.
ZeroAudioFails ==
    \A p \in EventsOf({"synth_empty"}) :
        /\ p = Len(events)
        /\ pc = "done"
        /\ result = GenerationFailedCode

BackendsExclusive ==
    /\ pygame_available
         => /\ tmpname = 0
            /\ tmpfiles = {}
            /\ \A p \in 1..Len(events) : events[p].dev # "afplay"
    /\ ~pygame_available
         => \A p \in 1..Len(events) : events[p].dev # "mixer"

\* C12: every paragraph is submitted to the TTS backend at most once in a run:
\* no two synthesis calls concern the same paragraph.
SubmittedAtMostOnce ==
    \A p, q \in EventsOf({"synth"}) : events[p].i = events[q].i => p = q

\* C13: no reset is invoked before paragraph 1; before the synthesis of every
\* later paragraph the first reset method the loaded model offers has just been
\* invoked, for a TTS object and for a loader-built model alike; and the step
\* that looks for a reset method never ends the run.
ResetBeforeLaterParagraphs ==
    /\ \A p \in EventsOf({"reset"}) : events[p].i > 1
    /\ (pc = "generate" /\ i > 1 /\ reset_op # "none")
         => (events # <<>> /\ events[Len(events)] = Ev("reset", i, reset_op, <<>>, <<>>, NoRate))
    /\ (pc = "generate" /\ i > 1) => result = 0

\* C14: once main has chosen the text to speak, that text is the cleaned main
\* content whenever the main content left by split_notes is not empty, with or
\* without --show-notes, and the main content holds no notes heading; the notes
\* are the text only when the main content is empty; every synthesis request
\* and the external run carry that text or a paragraph of it.
NotesSpokenOnlyAlone ==
    (caller = "main" /\ ~argv.file_missing /\ pc # "main")
        => LET split == split_notes(raw)
               main_text == Strip(split[1])
               notes_text == Strip(split[2])
               cleaned_main == clean_text(main_text)
           IN  /\ main_text # <<>>
                    => (text = cleaned_main /\ HeadingStart(split[1]) = 0)
               /\ text # cleaned_main
                    => (main_text = <<>> /\ text = clean_text(notes_text))
               /\ \A p \in EventsOf({"external"}) : events[p].txt = text
               /\ \A p \in EventsOf({"synth"}) : events[p].txt = Paragraphs(text)[events[p].i]

\* C14 witness: a document with main content and a notes section was
\* synthesized in-process with --show-notes
NotesLeftOut ==
    /\ caller = "main"
    /\ argv.show_notes
    /\ split_notes(raw)[2] # <<>>
    /\ Strip(split_notes(raw)[1]) # <<>>
    /\ EventsOf({"synth"}) # {}

TokensOf(t) == {t[k] : k \in 1..Len(t)}
Spoken == EventsOf({"synth", "external"})

\* C15: in every state nothing has been printed to stdout, and a run that
\* returned a non-zero code has its last message on stderr; the text of every
\* synthesis request and of the external run is made of tokens of the cleaned
\* text alone, which main made by cleaning the main content or the notes, and
\* no message printed so far is part of it.
DiagnosticsOnStderrOnly ==
    /\ stdout = <<>>
    /\ (pc = "done" /\ result # 0) => stderr # <<>>
    /\ (caller = "main" /\ pc # "main" /\ text # <<>>)
         => LET split == split_notes(raw)
            IN  \/ text = clean_text(Strip(split[1]))
                \/ text = clean_text(Strip(split[2]))
    /\ \A p \in Spoken :
         /\ TokensOf(events[p].txt) \subseteq TokensOf(text)
         /\ \A k \in 1..Len(stderr) : stderr[k].msg \notin TokensOf(events[p].txt)

\* C15 witness: main printed the preview and the warning about notes, the notes
\* were handed to the external process, and its failure was reported
NotesStreamedWithWarning ==
    /\ caller = "main"
    /\ pc = "done"
    /\ result # 0
    /\ HasMsg("Warning: document appears to contain only notes/guidance")
    /\ HasMsg("Marvis TTS exited with code")
    /\ \E p \in EventsOf({"external"}) : events[p].txt # <<>>

\* C16: without --inprocess, once main has called call_marvis_stream the run
\* has returned; the whole cleaned text went to at most one external process
\* and nothing was split, loaded, synthesized or played in-process; the code
\* returned is 0 exactly when the process exited with 0, the code of the
\* process when that was not 0, and 2 when the process could not be started.
ExternalModeIsOneRun ==
    (caller = "main" /\ ~argv.inprocess /\ HasMsg("Running Marvis TTS..."))
        => LET exited == {k \in 1..Len(stderr) : stderr[k].msg = "Marvis TTS exited with code"}
           IN  /\ pc = "done"
               /\ Len(events) <= 1
               /\ \A p \in 1..Len(events) : events[p].ev = "external" /\ events[p].txt = text
               /\ paragraphs = <<>> /\ ~loaded /\ i = 0 /\ tmpname = 0 /\ tmpfiles = {}
               /\ result = 0 <=> (events # <<>> /\ exited = {})
               /\ \A k \in exited : result = stderr[k].i /\ result # 0
               /\ events = <<>> => result = 2

\* the buffer is samples of paragraph n, then the silence of rate sr
Padded(buf, n, sr) ==
    /\ buf # <<>>
    /\ buf[Len(buf)] = Silence(SilenceSamples(sr))
    /\ \A k \in 1..(Len(buf) - 1) : buf[k].kind = "pcm" /\ buf[k].i = n

\* C17: every buffer handed to the mixer or to afplay is the samples of its
\* paragraph followed by int(sample_rate * 0.25) samples of silence, counted at
\* the rate the buffer is encoded with.
PaddedWithSilence ==
    \A p \in EventsOf({"play_begin"}) : Padded(events[p].buf, events[p].i, events[p].sr)

\* the pieces of cs occur in t one after the other, from index k on
RECURSIVE InOrder(_, _, _)
InOrder(cs, t, k) ==
    \/ cs = <<>>
    \/ /\ cs # <<>>
       /\ \E s \in k..(Len(t) - Len(Head(cs)) + 1) :
            /\ SubSeq(t, s, s + Len(Head(cs)) - 1) = Head(cs)
            /\ InOrder(Tail(cs), t, s + Len(Head(cs)))

\* C18: in both modes every chunk is non-empty and has no whitespace at either
\* end, the chunks occur in the text in the order returned, without overlap,
\* and all that is not in a chunk is whitespace; in paragraph mode a text of k
\* paragraphs separated by blank lines gives exactly these k paragraphs.
SegmentsTrimmedInOrder ==
    pc \in {"paragraph_mode", "sentence_mode"}
        => /\ \A n \in 1..Len(paragraphs) :
                /\ paragraphs[n] # <<>>
                /\ ~IsSpace(paragraphs[n][1])
                /\ ~IsSpace(paragraphs[n][Len(paragraphs[n])])
           /\ InOrder(paragraphs, text, 1)
           /\ Cardinality({k \in 1..Len(Concatenate(paragraphs)) : ~IsSpace(Concatenate(paragraphs)[k])})
                = Cardinality({k \in 1..Len(text) : ~IsSpace(text[k])})
           /\ pc = "paragraph_mode"
                => \A k \in 0..MaxParas, sep \in Separators :
                     text = JoinParas(k, sep)
                       => /\ Len(paragraphs) = k
                          /\ \A n \in 1..k : paragraphs[n] = Para(n)

\* C18 witness: three paragraphs separated by lines that hold only a blank
\* were split into three chunks
ThreeParagraphsSplit ==
    /\ pc = "paragraph_mode"
    /\ text = JoinParas(3, <<NL, SP, NL>>)
    /\ Len(paragraphs) = 3

\* C19: every buffer handed to playback is encoded at a rate that belongs to
\* it: a rate carried by a streamed result, else the sample_rate of the loaded
\* object (TTS object or loader-built model), and 22050 only when that object
\* has none; a TTS object's audio carries no rate of its own; the sub-buffers
\* of a paragraph are played, or concatenated and played, in the order yielded.
EncodedAtOwnRate ==
    /\ \A p \in EventsOf({"play_begin"}) :
         LET e == events[p]
         IN  /\ e.sr \in ResultRates \cup {RateOf(attr_rate, DefaultRate)}
             /\ backend = "TTS" => e.sr = RateOf(attr_rate, DefaultRate)
             /\ \A k \in 1..(Len(e.buf) - 1) :
                  e.buf[k + 1].kind = "pcm" => e.buf[k + 1].j = e.buf[k].j + 1
    /\ \A p, q \in EventsOf({"play_begin"}) :
         (p < q /\ events[p].dev = "mixer" /\ events[q].dev = "mixer" /\ events[p].i = events[q].i)
             => events[p].buf[1].j < events[q].buf[1].j

\* the samples the backend produced for paragraph n so far
Generated(n) ==
    IF backend = "loader" THEN [k \in 1..nsub |-> Pcm(n, k)]
    ELSE IF arr # <<>> /\ arr[1].kind = "pcm" THEN <<Pcm(n, 0)>> ELSE <<>>

\* C20: inprocess_stream has returned 0 only if a model was loaded and every
\* paragraph of the text, in the order of the text, was submitted for
\* synthesis and then a buffer of its audio was played to its end, each
\* playback begun having ended; the buffer written for a paragraph holds all
\* the samples generated for it, in order.
ZeroMeansAllPlayed ==
    /\ (pc = "done" /\ result = 0 /\ caller = "direct")
         => /\ loaded
            /\ paragraphs = Paragraphs(text)
            /\ \A k \in 1..Len(paragraphs) :
                 \E p, q \in 1..Len(events) :
                    /\ p < q
                    /\ events[p].ev = "synth" /\ events[p].i = k /\ events[p].txt = paragraphs[k]
                    /\ events[q].ev = "play_end" /\ events[q].i = k
                    /\ \A m \in 1..(Len(events[q].buf) - 1) : events[q].buf[m].i = k
            /\ \A p, q \in EventsOf({"synth", "play_begin", "play_end"}) :
                 p < q => events[p].i <= events[q].i
            /\ \A p \in EventsOf({"play_begin"}) :
                 p < Len(events) /\ events[p + 1].ev = "play_end" /\ events[p + 1].buf = events[p].buf
            /\ EventsOf({"synth_fail", "play_fail", "encode_fail", "temp_fail",
                         "player_missing", "play_abort"}) = {}
    /\ pc \in {"tempfile", "player", "playing"}
         => arr = Append(Generated(i), Silence(SilenceSamples(sample_rate)))

\* C20 witness: two paragraphs, each streamed as two sub-buffers by a
\* loader-built model, were played and the run returned 0
TwoStreamedParagraphsDone ==
    /\ pc = "done"
    /\ result = 0
    /\ caller = "direct"
    /\ backend = "loader"
    /\ Len(paragraphs) = 2
    /\ nsub = 2

\* the starts of a match of \n\s*\n+ in t
Boundaries(t) == {k \in 1..Len(t) : ParagraphBreakEnd(t, k) > 0}

\* C21: the text clean_text returns holds no paragraph boundary (a line break,
\* optional whitespace, a line break), whatever the text given to it, so the
\* paragraph split of the cleaned text gives at most one chunk; this holds for
\* the text main hands on as well.
NoBoundaryAfterCleaning ==
    (caller \in {"cleaner", "main"} /\ pc \notin {"clean", "main"})
        => /\ Boundaries(text) = {}
           /\ Len(Paragraphs(text)) <= 1
           /\ Len(paragraphs) <= 1

\* C21 witness: a text of two paragraphs separated by a blank line, whose
\* cleaned form still holds a line break, was split into one chunk
TwoParagraphsCleanedToOne ==
    /\ caller = "cleaner"
    /\ pc = "cleaned"
    /\ Len(Paragraphs(raw)) = 2
    /\ \E k \in 1..Len(text) : text[k] = NL
    /\ Len(paragraphs) = 1

====
